---- MODULE Spec2Model ----
(***************************************************************************)
(* Artifact store of the allcontext backend: the artifact service          *)
(* (app/services/artifacts.py), the text editing primitives                *)
(* (app/utils/text.py), title extraction (app/utils/markdown.py), the MCP  *)
(* string-replace tool (app/mcp/tools.py) and the version ledger that the  *)
(* database applies on every row update; then the API keys                 *)
(* (app/services/api_keys.py) with the token verifiers of the MCP servers, *)
(* and the artifact requests taken store call by store call when several   *)
(* are served at the same time.                                            *)
(*                                                                         *)
(* Text is a sequence of one-character strings.  Timestamps (created_at,   *)
(* updated_at) are left out of the rows: no property below reads them.     *)
(***************************************************************************)
EXTENDS Integers, Sequences, FiniteSets, TLC

VARIABLES art, last, edits, api_keys, now, ctx, revoked, reqs

vars == <<art, last, edits, api_keys, now, ctx, revoked, reqs>>

\* the state of the API keys, of the MCP request context and of the requests
\* in flight, which the artifact operations above them leave alone
others == <<api_keys, now, ctx, revoked, reqs>>

(***************************************************************************)
(* Program constants                                                       *)
(***************************************************************************)
\* "Version history with last 20 versions stored"
RetentionCap == 20
\* artifact["version_history"][:10]  -- "Return last 10 for API"
ApiVersionLimit == 10
\* extract_title_from_content(content, max_length=200)
MaxTitleLength == 200
\* fallback branch of extract_title_from_content: len(content) > 50
FallbackLength == 50
MaxContentLength == 100000

(***************************************************************************)
(* Bounds of the model                                                     *)
(***************************************************************************)
\* content/title-changing writes stop once an artifact is at this version
MaxVersion == 27
\* the versions at which writes other than a plain content update are followed:
\* a fresh artifact, and one whose history is full and has evicted snapshots
VariationVersions == {1, 26}
\* writes through the tools and the REST handlers stop at this version
MaxToolVersion == 3
\* a content given to extract_title_from_content has up to this many lines
MaxLines == 3
\* a content given to find_and_replace has up to this many characters
MaxTextLen == 4
\* the largest count given to find_and_replace
MaxLimit == 3

(***************************************************************************)
(* Values                                                                  *)
(***************************************************************************)
\* Python's None where a row or a returned object is expected
None == [none |-> TRUE]
\* the table holds no row
NoRow == [absent |-> TRUE]
\* None where a text is expected: no text holds a character of several letters
NoText == <<"None">>
\* None where a metadata mapping is expected
NoMeta == "None"
\* an optional count is <<>> (None) or <<n>>
NoCount == <<>>
\* no authenticated user
NoUser == "None"
ArtifactId == "a1"
Metadatas == {"m0", "m1"}
\* contents a plain update writes: "ab" and "abb"
Contents == { <<"a", "b">>, <<"a", "b", "b">> }
\* the explicit title a caller may give: "t"
Titles == { <<"t">> }
\* search strings and replacements of string_replace
OldStrings == { <<"b">>, <<"b", "b">>, <<"c">>, <<>> }
NewStrings == { <<"b">>, <<"b", "b">> }
Counts == {NoCount, <<1>>}
Untitled == <<"U", "n", "t", "i", "t", "l", "e", "d">>
Ellipsis == <<".", ".", ".">>

Min(a, b) == IF a < b THEN a ELSE b

(***************************************************************************)
(* Python string methods over sequences of characters                      *)
(***************************************************************************)
IsSpace(c) == c \in {" ", "\n", "\t"}

Prefix(s, n) == SubSeq(s, 1, Min(n, Len(s)))

Drop(s, n) == SubSeq(s, n + 1, Len(s))

\* s[i:].startswith(sub), i 1-based
StartsAt(s, sub, i) == /\ i + Len(sub) - 1 <= Len(s)
                       /\ SubSeq(s, i, i + Len(sub) - 1) = sub

RECURSIVE LStrip(_)
LStrip(s) == IF s # <<>> /\ IsSpace(Head(s)) THEN LStrip(Tail(s)) ELSE s

RECURSIVE RStrip(_)
RStrip(s) == IF s # <<>> /\ IsSpace(s[Len(s)]) THEN RStrip(SubSeq(s, 1, Len(s) - 1)) ELSE s

\* str.strip()
Strip(s) == RStrip(LStrip(s))

\* position of the first "\n" at or after i, or Len(s) + 1
RECURSIVE LineEnd(_, _)
LineEnd(s, i) == IF i > Len(s) \/ s[i] = "\n" THEN i ELSE LineEnd(s, i + 1)

\* str.split('\n')
RECURSIVE SplitLines(_)
SplitLines(s) == LET e == LineEnd(s, 1)
                 IN  IF e > Len(s) THEN <<s>>
                     ELSE <<SubSeq(s, 1, e - 1)>> \o SplitLines(Drop(s, e))

\* '\n'.join(lines)
RECURSIVE JoinLines(_)
JoinLines(lines) == IF Len(lines) = 0 THEN <<>>
                    ELSE IF Len(lines) = 1 THEN lines[1]
                    ELSE lines[1] \o <<"\n">> \o JoinLines(Tail(lines))

\* str.count(sub) for a non-empty sub: non-overlapping occurrences, left to right
RECURSIVE CountFrom(_, _, _)
CountFrom(s, sub, i) == IF i + Len(sub) - 1 > Len(s) THEN 0
                        ELSE IF StartsAt(s, sub, i) THEN 1 + CountFrom(s, sub, i + Len(sub))
                        ELSE CountFrom(s, sub, i + 1)

StrCount(s, sub) == IF sub = <<>> THEN Len(s) + 1 ELSE CountFrom(s, sub, 1)

\* str.replace(old, new, n) for a non-empty old; n < 0 replaces every occurrence
RECURSIVE ReplaceFrom(_, _, _, _, _)
ReplaceFrom(s, old, new, n, i) ==
    IF i > Len(s) THEN <<>>
    ELSE IF n # 0 /\ StartsAt(s, old, i)
         THEN new \o ReplaceFrom(s, old, new, n - 1, i + Len(old))
         ELSE <<s[i]>> \o ReplaceFrom(s, old, new, n, i + 1)

StrReplace(s, old, new, n) == ReplaceFrom(s, old, new, n, 1)

(***************************************************************************)
(* app/utils/markdown.py                                                   *)
(***************************************************************************)
\* title[:max_length] if len(title) > max_length else title
Truncate(title, max_length) == IF Len(title) > max_length THEN Prefix(title, max_length) ELSE title

\* ^ under re.MULTILINE: the start of the text or just after a newline
AtLineStart(s, i) == i = 1 \/ s[i - 1] = "\n"

\* lengths k of a whitespace run after the marker for which \s+(.+)$ can match:
\* k >= 1 whitespace characters and then at least one character other than "\n"
WsRuns(s, i, marker) ==
    { k \in 1..Len(s) :
        /\ i + Len(marker) + k <= Len(s)
        /\ \A j \in 1..k : IsSpace(s[i + Len(marker) + j - 1])
        /\ s[i + Len(marker) + k] # "\n" }

\* re.match of  marker\s+(.+)$  at position i
HeadingAt(s, i, marker) == /\ AtLineStart(s, i)
                           /\ StartsAt(s, marker, i)
                           /\ WsRuns(s, i, marker) # {}

SetMax(S) == CHOOSE x \in S : \A y \in S : y <= x

SetMin(S) == CHOOSE x \in S : \A y \in S : x <= y

\* group(1) of that match: \s+ is greedy, (.+) runs to the end of the line
HeadingGroup(s, i, marker) ==
    LET k == SetMax(WsRuns(s, i, marker))
        b == i + Len(marker) + k
    IN  SubSeq(s, b, LineEnd(s, b) - 1)

\* positions where re.search(r'^marker\s+(.+)$', s, re.MULTILINE) can match
HeadingPositions(s, marker) == { i \in 1..Len(s) : HeadingAt(s, i, marker) }

\* the first line of lines that is not empty once stripped, or <<>>
RECURSIVE FirstNonEmptyLine(_)
FirstNonEmptyLine(lines) == IF Len(lines) = 0 THEN <<>>
                            ELSE IF Strip(lines[1]) # <<>> THEN Strip(lines[1])
                            ELSE FirstNonEmptyLine(Tail(lines))

extract_title_from_content(content, max_length) ==
    IF content = <<>> THEN Untitled
    ELSE LET c  == Strip(content)
             h1 == HeadingPositions(c, <<"#">>)
             h2 == HeadingPositions(c, <<"#", "#">>)
             ln == FirstNonEmptyLine(SplitLines(c))
         IN  IF h1 # {} THEN Truncate(Strip(HeadingGroup(c, SetMin(h1), <<"#">>)), max_length)
             ELSE IF h2 # {} THEN Truncate(Strip(HeadingGroup(c, SetMin(h2), <<"#", "#">>)), max_length)
             ELSE IF ln # <<>> THEN Truncate(ln, max_length)
             ELSE IF Len(c) > FallbackLength THEN Strip(Prefix(c, FallbackLength)) \o Ellipsis
             ELSE c

(***************************************************************************)
(* app/utils/text.py                                                       *)
(***************************************************************************)
\* find_and_replace without the test on occurrences
find_and_replace_unchecked(content, old_string, new_string, count) ==
    IF old_string = <<>> THEN [ok |-> FALSE, error |-> "old_string cannot be empty"]
    ELSE [ok |-> TRUE,
          modified |-> StrReplace(content, old_string, new_string,
                                  IF count = NoCount THEN -1 ELSE count[1]),
          replacements_made |-> StrCount(content, old_string)]

\* a ValueError is [ok |-> FALSE, error |-> the leading text of its message],
\* the quoted search string and the line numbers left out
find_and_replace(content, old_string, new_string, count) ==
    IF old_string = <<>> THEN [ok |-> FALSE, error |-> "old_string cannot be empty"]
    ELSE LET occurrences == StrCount(content, old_string)
         IN  IF occurrences = 0 THEN [ok |-> FALSE, error |-> "String not found"]
             ELSE IF count = NoCount
                  THEN [ok |-> TRUE,
                        modified |-> StrReplace(content, old_string, new_string, -1),
                        replacements_made |-> occurrences]
                  ELSE [ok |-> TRUE,
                        modified |-> StrReplace(content, old_string, new_string, count[1]),
                        replacements_made |-> Min(count[1], occurrences)]

\* list.insert(index, text), index 0-based and within 0..len(lines)
ListInsert(lines, index, text) ==
    SubSeq(lines, 1, index) \o <<text>> \o SubSeq(lines, index + 1, Len(lines))

\* insert_at_line with the upper end of the range one short
insert_at_line_no_append(content, line_number, text) ==
    LET lines == SplitLines(content)
        index == line_number - 1
    IN  IF line_number < 1 \/ line_number > Len(lines)
        THEN [ok |-> FALSE, error |-> "Line number out of range"]
        ELSE [ok |-> TRUE, modified |-> JoinLines(ListInsert(lines, index, text))]

insert_at_line(content, line_number, text) ==
    LET lines == SplitLines(content)
        index == line_number - 1
    IN  IF line_number < 1 \/ line_number > Len(lines) + 1
        THEN [ok |-> FALSE, error |-> "Line number out of range"]
        ELSE IF index = Len(lines)
             THEN [ok |-> TRUE, modified |-> JoinLines(Append(lines, text))]
             ELSE [ok |-> TRUE, modified |-> JoinLines(ListInsert(lines, index, text))]

\* old_string in line
Contains(line, sub) == \E i \in 1..(Len(line) + 1) : StartsAt(line, sub, i)

\* 1-based numbers of the lines that contain old_string, in order
RECURSIVE MatchingFrom(_, _, _)
MatchingFrom(lines, old_string, i) ==
    IF i > Len(lines) THEN <<>>
    ELSE (IF Contains(lines[i], old_string) THEN <<i>> ELSE <<>>)
         \o MatchingFrom(lines, old_string, i + 1)

\* validate_unique_match that lets several occurrences pass
validate_unique_match_lenient(content, old_string, allow_multiple) ==
    IF old_string = <<>> THEN [ok |-> FALSE, error |-> "Search string cannot be empty"]
    ELSE LET occurrences == StrCount(content, old_string)
         IN  IF occurrences = 0 THEN [ok |-> FALSE, error |-> "String not found"]
             ELSE [ok |-> TRUE, occurrences |-> occurrences]

validate_unique_match(content, old_string, allow_multiple) ==
    IF old_string = <<>> THEN [ok |-> FALSE, error |-> "Search string cannot be empty"]
    ELSE LET occurrences == StrCount(content, old_string)
             matching    == MatchingFrom(SplitLines(content), old_string, 1)
         IN  IF occurrences = 0 THEN [ok |-> FALSE, error |-> "String not found"]
             ELSE IF occurrences > 1 /\ ~allow_multiple
                  THEN [ok |-> FALSE, error |-> "String appears several times",
                        occurrences |-> occurrences,
                        lines |-> Prefix(matching, 3),
                        more |-> IF Len(matching) >= 3 THEN occurrences - 3 ELSE 0]
             ELSE [ok |-> TRUE, occurrences |-> occurrences]

(***************************************************************************)
(* The artifacts table.  One row, or NoRow:                                *)
(*   [id, user_id, title, content, metadata, version, version_count,       *)
(*    version_history]                                                     *)
(* version_history is newest first; a snapshot is                          *)
(*   [version, title, content, metadata, content_length, title_changed,    *)
(*    content_changed].                                                    *)
(* The version ledger runs inside the database on every row update; it is  *)
(* written here from its description (record_mutation).                    *)
(***************************************************************************)
\* a snapshot stamped with the version the write produces
SnapshotOf_next_version(old, title_changed, content_changed) ==
    [version         |-> old.version + 1,
     title           |-> old.title,
     content         |-> old.content,
     metadata        |-> old.metadata,
     content_length  |-> Len(old.content),
     title_changed   |-> title_changed,
     content_changed |-> content_changed]

\* the snapshot of the row as it is before the write
SnapshotOf(old, title_changed, content_changed) ==
    [version         |-> old.version,
     title           |-> old.title,
     content         |-> old.content,
     metadata        |-> old.metadata,
     content_length  |-> Len(old.content),
     title_changed   |-> title_changed,
     content_changed |-> content_changed]

\* a trim that keeps the tail: the newest snapshots go first
TrimHistory_keeps_oldest(history) ==
    SubSeq(history, Len(history) - Min(Len(history), RetentionCap) + 1, Len(history))

\* trim to the retention cap: the oldest snapshots, at the tail, go first
TrimHistory(history) == SubSeq(history, 1, Min(Len(history), RetentionCap))

\* a ledger that advances the version on every write, snapshot or not
record_mutation_every_write(old, new) ==
    LET title_changed   == new.title # old.title
        content_changed == new.content # old.content
    IN  IF ~title_changed /\ ~content_changed
        THEN [new EXCEPT !.version = old.version + 1]
        ELSE [new EXCEPT
                !.version_history = TrimHistory(<<SnapshotOf(old, title_changed, content_changed)>>
                                                \o old.version_history),
                !.version_count   = old.version_count + 1,
                !.version         = old.version + 1]

\* the row the database stores when new replaces old
record_mutation(old, new) ==
    LET title_changed   == new.title # old.title
        content_changed == new.content # old.content
    IN  IF ~title_changed /\ ~content_changed
        THEN new
        ELSE [new EXCEPT
                !.version_history = TrimHistory(<<SnapshotOf(old, title_changed, content_changed)>>
                                                \o old.version_history),
                !.version_count   = old.version_count + 1,
                !.version         = old.version + 1]

\* table("artifacts").insert(artifact_data): the column defaults of a new row
db_insert(user_id, title, content, metadata) ==
    [id              |-> ArtifactId,
     user_id         |-> user_id,
     title           |-> title,
     content         |-> content,
     metadata        |-> metadata,
     version         |-> 1,
     version_count   |-> 0,
     version_history |-> <<>>]

\* an update that leaves the content column as it was
ApplyColumns_without_content(row, update_data) ==
    [row EXCEPT
       !.title    = IF update_data.title # NoText THEN update_data.title ELSE @,
       !.metadata = IF update_data.metadata # NoMeta THEN update_data.metadata ELSE @]

\* the columns update_data sets; NoText and NoMeta mark a key that is absent
ApplyColumns(row, update_data) ==
    [row EXCEPT
       !.title    = IF update_data.title # NoText THEN update_data.title ELSE @,
       !.content  = IF update_data.content # NoText THEN update_data.content ELSE @,
       !.metadata = IF update_data.metadata # NoMeta THEN update_data.metadata ELSE @]

\* rows matched by .eq("id", artifact_id).eq("user_id", user_id)
RowMatches(row, artifact_id, user_id) ==
    row # NoRow /\ row.id = artifact_id /\ row.user_id = user_id

\* a table update that sets the columns and records nothing in the ledger
db_update_unrecorded(row, artifact_id, user_id, update_data) ==
    IF RowMatches(row, artifact_id, user_id)
    THEN ApplyColumns(row, update_data)
    ELSE row

\* table("artifacts").update(update_data).eq("id", ..).eq("user_id", ..).execute():
\* the row afterwards; no row matched leaves the table as it is
db_update(row, artifact_id, user_id, update_data) ==
    IF RowMatches(row, artifact_id, user_id)
    THEN record_mutation(row, ApplyColumns(row, update_data))
    ELSE row

(***************************************************************************)
(* app/services/artifacts.py: ArtifactService                              *)
(* Every operation below is given the table row and returns what the       *)
(* method returns; the writing ones return [result, row], the row being    *)
(* the table afterwards.                                                   *)
(***************************************************************************)
\* no key set
NoData == [title |-> NoText, content |-> NoText, metadata |-> NoMeta]

create(user_id, data) ==
    LET title == IF data.title # NoText /\ data.title # <<>>
                 THEN data.title
                 ELSE extract_title_from_content(data.content, MaxTitleLength)
        row   == db_insert(user_id, title, data.content, data.metadata)
    IN  [result |-> row, row |-> row]

\* get without the access test
get_any_user(row, artifact_id, user_id) ==
    IF row = NoRow \/ row.id # artifact_id THEN None ELSE row

get(row, artifact_id, user_id) ==
    IF row = NoRow \/ row.id # artifact_id THEN None
    ELSE IF user_id # NoUser /\ row.user_id # user_id THEN None
    ELSE row

\* update_data with the title derived whether or not content is given
UpdateData_always_titled(data) ==
    [title    |-> IF data.title # NoText THEN data.title
                  ELSE extract_title_from_content(
                         IF data.content # NoText THEN data.content ELSE <<>>,
                         MaxTitleLength),
     content  |-> data.content,
     metadata |-> data.metadata]

\* update_data with the fields as the caller gave them, no title derived
UpdateData_as_given(data) == data

\* the update_data dictionary of update()
UpdateData(data) ==
    [title    |-> IF data.title # NoText THEN data.title
                  ELSE IF data.content # NoText
                       THEN extract_title_from_content(data.content, MaxTitleLength)
                       ELSE NoText,
     content  |-> data.content,
     metadata |-> data.metadata]

\* update() with the test on update_data inverted
update_inverted(row, artifact_id, user_id, data) ==
    LET existing    == get(row, artifact_id, user_id)
        update_data == UpdateData(data)
        after       == db_update(row, artifact_id, user_id, update_data)
    IN  IF existing = None \/ existing.user_id # user_id THEN [result |-> None, row |-> row]
        ELSE IF update_data # NoData THEN [result |-> existing, row |-> row]
        ELSE [result |-> after, row |-> after]

update(row, artifact_id, user_id, data) ==
    LET existing    == get(row, artifact_id, user_id)
        update_data == UpdateData(data)
        after       == db_update(row, artifact_id, user_id, update_data)
    IN  IF existing = None \/ existing.user_id # user_id THEN [result |-> None, row |-> row]
        ELSE IF update_data = NoData THEN [result |-> existing, row |-> row]
        ELSE [result |-> after, row |-> after]

\* delete selecting the row by its id alone
delete_any_user(row, artifact_id, user_id) ==
    IF row # NoRow /\ row.id = artifact_id
    THEN [result |-> TRUE, row |-> NoRow]
    ELSE [result |-> FALSE, row |-> row]

\* delete that reports success and keeps the row
delete_keeps_row(row, artifact_id, user_id) ==
    [result |-> RowMatches(row, artifact_id, user_id), row |-> row]

delete(row, artifact_id, user_id) ==
    IF RowMatches(row, artifact_id, user_id)
    THEN [result |-> TRUE, row |-> NoRow]
    ELSE [result |-> FALSE, row |-> row]

\* ArtifactVersionSummary of a stored snapshot
SummaryOf(v) ==
    [version        |-> v.version,
     title          |-> v.title,
     content_length |-> v.content_length,
     changes        |-> (IF v.title_changed THEN {"title"} ELSE {})
                        \cup (IF v.content_changed THEN {"content"} ELSE {})]

\* get_versions counting the snapshots held instead of reading version_count
get_versions_counts_held(row, artifact_id, user_id) ==
    IF ~RowMatches(row, artifact_id, user_id) THEN None
    ELSE [id              |-> row.id,
          current_version |-> row.version,
          version_count   |-> Len(row.version_history),
          versions        |-> [i \in 1..Min(Len(row.version_history), ApiVersionLimit) |->
                                 SummaryOf(row.version_history[i])]]

\* get_versions slicing the last ten snapshots instead of the first ten
get_versions_oldest_ten(row, artifact_id, user_id) ==
    IF ~RowMatches(row, artifact_id, user_id) THEN None
    ELSE [id              |-> row.id,
          current_version |-> row.version,
          version_count   |-> row.version_count,
          versions        |-> [i \in 1..Min(Len(row.version_history), ApiVersionLimit) |->
                                 SummaryOf(row.version_history[
                                   Len(row.version_history)
                                   - Min(Len(row.version_history), ApiVersionLimit) + i])]]

get_versions(row, artifact_id, user_id) ==
    IF ~RowMatches(row, artifact_id, user_id) THEN None
    ELSE [id              |-> row.id,
          current_version |-> row.version,
          version_count   |-> row.version_count,
          versions        |-> [i \in 1..Min(Len(row.version_history), ApiVersionLimit) |->
                                 SummaryOf(row.version_history[i])]]

\* indexes of the stored snapshots that carry version_number
HistoryHits(row, version_number) ==
    { i \in 1..Len(row.version_history) : row.version_history[i].version = version_number }

\* get_version answering with the oldest snapshot when none carries the number
get_version_falls_back(row, artifact_id, user_id, version_number) ==
    IF ~RowMatches(row, artifact_id, user_id) THEN None
    ELSE IF version_number = row.version
         THEN [version         |-> row.version,
               title           |-> row.title,
               content         |-> row.content,
               metadata        |-> row.metadata,
               content_length  |-> Len(row.content),
               title_changed   |-> FALSE,
               content_changed |-> FALSE]
    ELSE LET hits == HistoryHits(row, version_number)
         IN  IF hits # {} THEN row.version_history[SetMin(hits)]
             ELSE IF row.version_history # <<>>
                  THEN row.version_history[Len(row.version_history)]
             ELSE None

get_version(row, artifact_id, user_id, version_number) ==
    IF ~RowMatches(row, artifact_id, user_id) THEN None
    ELSE IF version_number = row.version
         THEN [version         |-> row.version,
               title           |-> row.title,
               content         |-> row.content,
               metadata        |-> row.metadata,
               content_length  |-> Len(row.content),
               title_changed   |-> FALSE,
               content_changed |-> FALSE]
    ELSE LET hits == HistoryHits(row, version_number)
         IN  IF hits # {} THEN row.version_history[SetMin(hits)] ELSE None

restore_version(row, artifact_id, user_id, version_number) ==
    LET version     == get_version(row, artifact_id, user_id, version_number)
        update_data == [title |-> version.title, content |-> version.content,
                        metadata |-> version.metadata]
        after       == db_update(row, artifact_id, user_id, update_data)
    IN  IF version = None THEN [result |-> None, row |-> row]
        ELSE [result |-> after, row |-> after]

\* get_version_diff reporting the size of the length change without its sign
get_version_diff_unsigned(row, artifact_id, user_id, from_version, to_version) ==
    LET from_v == get_version(row, artifact_id, user_id, from_version)
        to_v   == get_version(row, artifact_id, user_id, to_version)
        change == to_v.content_length - from_v.content_length
    IN  IF from_v = None \/ to_v = None THEN None
        ELSE [from_version          |-> from_version,
              to_version            |-> to_version,
              title_changed         |-> from_v.title # to_v.title,
              old_title             |-> IF from_v.title # to_v.title THEN from_v.title ELSE NoText,
              new_title             |-> IF from_v.title # to_v.title THEN to_v.title ELSE NoText,
              content_length_change |-> IF change < 0 THEN 0 - change ELSE change,
              metadata_changed      |-> from_v.metadata # to_v.metadata]

\* get_version_diff filling old_title and new_title whether or not they differ
get_version_diff_always_titles(row, artifact_id, user_id, from_version, to_version) ==
    LET from_v == get_version(row, artifact_id, user_id, from_version)
        to_v   == get_version(row, artifact_id, user_id, to_version)
    IN  IF from_v = None \/ to_v = None THEN None
        ELSE [from_version          |-> from_version,
              to_version            |-> to_version,
              title_changed         |-> from_v.title # to_v.title,
              old_title             |-> from_v.title,
              new_title             |-> to_v.title,
              content_length_change |-> to_v.content_length - from_v.content_length,
              metadata_changed      |-> from_v.metadata # to_v.metadata]

get_version_diff(row, artifact_id, user_id, from_version, to_version) ==
    LET from_v == get_version(row, artifact_id, user_id, from_version)
        to_v   == get_version(row, artifact_id, user_id, to_version)
    IN  IF from_v = None \/ to_v = None THEN None
        ELSE [from_version          |-> from_version,
              to_version            |-> to_version,
              title_changed         |-> from_v.title # to_v.title,
              old_title             |-> IF from_v.title # to_v.title THEN from_v.title ELSE NoText,
              new_title             |-> IF from_v.title # to_v.title THEN to_v.title ELSE NoText,
              content_length_change |-> to_v.content_length - from_v.content_length,
              metadata_changed      |-> from_v.metadata # to_v.metadata]

(***************************************************************************)
(* ArtifactService.string_replace and string_insert, the two methods the   *)
(* MCP tools call: load the current content, apply the text primitive,     *)
(* pass its error on, then update() with only the content set.             *)
(***************************************************************************)
ContentOnly(content) == [title |-> NoText, content |-> content, metadata |-> NoMeta]

string_replace(row, artifact_id, user_id, old_string, new_string, count) ==
    LET existing == get(row, artifact_id, user_id)
        unique   == validate_unique_match(existing.content, old_string, FALSE)
        replaced == find_and_replace(existing.content, old_string, new_string, count)
    IN  IF existing = None THEN [result |-> None, row |-> row]
        ELSE IF count = NoCount /\ ~unique.ok THEN [result |-> unique, row |-> row]
        ELSE IF ~replaced.ok THEN [result |-> replaced, row |-> row]
        ELSE update(row, artifact_id, user_id, ContentOnly(replaced.modified))

string_insert(row, artifact_id, user_id, line_number, text) ==
    LET existing == get(row, artifact_id, user_id)
        inserted == insert_at_line(existing.content, line_number, text)
    IN  IF existing = None THEN [result |-> None, row |-> row]
        ELSE IF ~inserted.ok THEN [result |-> inserted, row |-> row]
        ELSE update(row, artifact_id, user_id, ContentOnly(inserted.modified))

\* a result that is a ValueError raised by a text primitive
IsValueError(result) == "ok" \in DOMAIN result /\ ~result.ok

(***************************************************************************)
(* app/mcp: the request context and the string tools                       *)
(***************************************************************************)
\* check_required_scope satisfied by any scope at all
check_required_scope_any(user_scopes, required_scope) == user_scopes # {}

check_required_scope(user_scopes, required_scope) == required_scope \in user_scopes

str_replace_artifact(row, ctx_user, ctx_scopes, artifact_id, old_string, new_string, count) ==
    LET r == string_replace(row, artifact_id, ctx_user, old_string, new_string, count)
    IN  IF ctx_user = NoUser
        THEN [response |-> "Authentication required", row |-> row]
        ELSE IF ~check_required_scope(ctx_scopes, "write")
        THEN [response |-> "Insufficient permissions. Required scope: write", row |-> row]
        ELSE IF old_string = <<>>
        THEN [response |-> "old_string cannot be empty", row |-> row]
        ELSE IF IsValueError(r.result) THEN [response |-> r.result.error, row |-> r.row]
        ELSE IF r.result = None THEN [response |-> "not found or access denied", row |-> r.row]
        ELSE [response |-> "ok", row |-> r.row]

str_insert_artifact(row, ctx_user, ctx_scopes, artifact_id, line_number, text) ==
    LET r == string_insert(row, artifact_id, ctx_user, line_number, text)
    IN  IF ctx_user = NoUser
        THEN [response |-> "Authentication required", row |-> row]
        ELSE IF ~check_required_scope(ctx_scopes, "write")
        THEN [response |-> "Insufficient permissions. Required scope: write", row |-> row]
        ELSE IF line_number < 1
        THEN [response |-> "Line number must be 1 or greater", row |-> row]
        ELSE IF IsValueError(r.result) THEN [response |-> r.result.error, row |-> r.row]
        ELSE IF r.result = None THEN [response |-> "not found or access denied", row |-> r.row]
        ELSE [response |-> "ok", row |-> r.row]

\* the other tools of app/mcp/tools.py; a tool answers [response, row]
create_artifact(row, ctx_user, ctx_scopes, data) ==
    IF ctx_user = NoUser
    THEN [response |-> "Authentication required", row |-> row]
    ELSE IF ~check_required_scope(ctx_scopes, "write")
    THEN [response |-> "Insufficient permissions. Required scope: write", row |-> row]
    ELSE [response |-> "ok", row |-> create(ctx_user, data).row]

update_artifact(row, ctx_user, ctx_scopes, artifact_id, data) ==
    LET r == update(row, artifact_id, ctx_user, data)
    IN  IF ctx_user = NoUser
        THEN [response |-> "Authentication required", row |-> row]
        ELSE IF ~check_required_scope(ctx_scopes, "write")
        THEN [response |-> "Insufficient permissions. Required scope: write", row |-> row]
        ELSE IF data = NoData
        THEN [response |-> "No update fields provided", row |-> row]
        ELSE IF r.result = None THEN [response |-> "not found or access denied", row |-> r.row]
        ELSE [response |-> "ok", row |-> r.row]

delete_artifact(row, ctx_user, ctx_scopes, artifact_id) ==
    LET r == delete(row, artifact_id, ctx_user)
    IN  IF ctx_user = NoUser
        THEN [response |-> "Authentication required", row |-> row]
        ELSE IF ~check_required_scope(ctx_scopes, "delete")
        THEN [response |-> "Insufficient permissions. Required scope: delete", row |-> row]
        ELSE IF ~r.result THEN [response |-> "not found or access denied", row |-> r.row]
        ELSE [response |-> "ok", row |-> r.row]

restore_artifact_version(row, ctx_user, ctx_scopes, artifact_id, version_number) ==
    LET r == restore_version(row, artifact_id, ctx_user, version_number)
    IN  IF ctx_user = NoUser
        THEN [response |-> "Authentication required", row |-> row]
        ELSE IF ~check_required_scope(ctx_scopes, "write")
        THEN [response |-> "Insufficient permissions. Required scope: write", row |-> row]
        ELSE IF r.result = None THEN [response |-> "Cannot restore version", row |-> r.row]
        ELSE [response |-> "ok", row |-> r.row]

(***************************************************************************)
(* app/mcp/server.py, the server main.py mounts: the scopes of the key go   *)
(* into the AccessToken, the server asks every token for RequiredScopes,    *)
(* and delete_artifact reads the authenticated user only.                   *)
(***************************************************************************)
\* AuthSettings(required_scopes=["read", "write"])
RequiredScopes == {"read", "write"}

server_delete_artifact(row, ctx_user, token_scopes, artifact_id) ==
    LET r == delete(row, artifact_id, ctx_user)
    IN  IF ctx_user = NoUser
        THEN [response |-> "Authentication required", row |-> row]
        ELSE IF ~(RequiredScopes \subseteq token_scopes)
        THEN [response |-> "insufficient_scope", row |-> row]
        ELSE IF ~r.result THEN [response |-> "not found or access denied", row |-> r.row]
        ELSE [response |-> "ok", row |-> r.row]

(***************************************************************************)
(* app/api/artifacts.py with app/dependencies/auth.py: the REST handlers.  *)
(* A request carries an API key, given here by the user and the scopes the *)
(* key validates to; a handler answers [status, row].                      *)
(***************************************************************************)
\* validate_api_key returns (user_id, scopes); get_current_user keeps user_id
get_current_user(key_user, key_scopes) == key_user

api_create_artifact(row, key_user, key_scopes, data) ==
    LET user_id == get_current_user(key_user, key_scopes)
    IN  IF user_id = NoUser THEN [status |-> 401, row |-> row]
        ELSE [status |-> 201, row |-> create(user_id, data).row]

api_update_artifact(row, key_user, key_scopes, artifact_id, data) ==
    LET user_id == get_current_user(key_user, key_scopes)
        r       == update(row, artifact_id, user_id, data)
    IN  IF user_id = NoUser THEN [status |-> 401, row |-> row]
        ELSE IF r.result = None THEN [status |-> 404, row |-> r.row]
        ELSE [status |-> 200, row |-> r.row]

api_delete_artifact(row, key_user, key_scopes, artifact_id) ==
    LET user_id == get_current_user(key_user, key_scopes)
        r       == delete(row, artifact_id, user_id)
    IN  IF user_id = NoUser THEN [status |-> 401, row |-> row]
        ELSE IF ~r.result THEN [status |-> 404, row |-> r.row]
        ELSE [status |-> 204, row |-> r.row]

api_restore_artifact_version(row, key_user, key_scopes, artifact_id, version_number) ==
    LET user_id == get_current_user(key_user, key_scopes)
        r       == restore_version(row, artifact_id, user_id, version_number)
    IN  IF user_id = NoUser THEN [status |-> 401, row |-> row]
        ELSE IF r.result = None THEN [status |-> 404, row |-> r.row]
        ELSE [status |-> 200, row |-> r.row]

(***************************************************************************)
(* Inputs                                                                  *)
(***************************************************************************)
Owner == "u1"
\* calls that name another user's artifact or an artifact that does not exist
ForeignCalls == { [id |-> "a1", user |-> "u2"], [id |-> "a2", user |-> "u1"] }
Scopes == {"read", "write"}
CreateDatas == [title : Titles \cup {NoText}, content : Contents, metadata : {"m0"}]
UpdateDatas == [title : Titles \cup {NoText}, content : Contents \cup {NoText},
                metadata : Metadatas \cup {NoMeta}]
ForeignDatas == { [title |-> NoText, content |-> <<"a">>, metadata |-> "m1"] }
Versions == 1..(MaxVersion + 1)
LineNumbers == 0..3
InsertTexts == { <<"#", " ", "a">> }

(***************************************************************************)
(* The rows of the api_keys table and the requests in flight.  A key id    *)
(* names a row; a request id names one of the requests being served at     *)
(* the same time.                                                          *)
(***************************************************************************)
KeyIds == {"k1", "k2"}
NoKey == [absent |-> TRUE]
Requests == {"r1", "r2"}
Idle == [pc |-> "idle"]

(***************************************************************************)
(* State: art is the table row (or NoRow), last the operation that ran     *)
(* last with its outcome.  edits is an observer: the number of update      *)
(* calls made on the artifact since it was created when every call since   *)
(* then was an update that changed the content, and -1 otherwise.          *)
(* api_keys is the api_keys table, now the clock, ctx the context          *)
(* variables of the MCP servers (authenticated_user_id and                 *)
(* authenticated_scopes of app/mcp_server/auth.py, authenticated_user_id   *)
(* of app/mcp/server.py), reqs the position and the locals of every        *)
(* request in flight.  revoked is an observer: the ids of the keys that a  *)
(* delete call has deactivated.                                            *)
(***************************************************************************)
Init == /\ art = NoRow
        /\ last = [op |-> "none", result |-> "none"]
        /\ edits = -1
        /\ api_keys = [k \in KeyIds |-> NoKey]
        /\ now = 0
        /\ ctx = [user_id |-> NoUser, scopes |-> {}, server_user_id |-> NoUser]
        /\ revoked = {}
        /\ reqs = [r \in Requests |-> Idle]

\* an update call of the owner that changes the content
ChangesContent(artifact_id, user_id, data) ==
    /\ get(art, artifact_id, user_id) # None
    /\ data.content # NoText
    /\ data.content # art.content

\* an update that sets the content and nothing else
IsPlain(data) == data.title = NoText /\ data.metadata = NoMeta

\* the writes the model follows: up to MaxVersion, plain content updates at
\* every version, every other write at the versions of VariationVersions
WithinBounds(after, plain) ==
    \/ after = art
    \/ /\ after.version <= MaxVersion
       /\ plain \/ art.version \in VariationVersions

Outcome(result) == IF result = None THEN "None" ELSE "ok"

Create(user_id, data) ==
    /\ art = NoRow
    /\ art' = create(user_id, data).row
    /\ last' = [op |-> "create", result |-> "ok"]
    /\ edits' = 0
    /\ UNCHANGED others

Update(artifact_id, user_id, data) ==
    LET r == update(art, artifact_id, user_id, data)
    IN  /\ art # NoRow
        /\ WithinBounds(r.row, IsPlain(data))
        /\ art' = r.row
        /\ last' = [op |-> "update", result |-> Outcome(r.result)]
        /\ edits' = IF edits >= 0 /\ ChangesContent(artifact_id, user_id, data)
                     THEN edits + 1 ELSE -1
        /\ UNCHANGED others

Delete(artifact_id, user_id) ==
    LET r == delete(art, artifact_id, user_id)
    IN  /\ art # NoRow
        /\ art' = r.row
        /\ last' = [op |-> "delete", result |-> IF r.result THEN "True" ELSE "False"]
        /\ edits' = -1
        /\ UNCHANGED others

RestoreVersion(artifact_id, user_id, version_number) ==
    LET r == restore_version(art, artifact_id, user_id, version_number)
    IN  /\ art # NoRow
        /\ WithinBounds(r.row, FALSE)
        /\ art' = r.row
        /\ last' = [op |-> "restore_version", result |-> Outcome(r.result)]
        /\ edits' = -1
        /\ UNCHANGED others

StrReplaceArtifact(ctx_user, ctx_scopes, artifact_id, old_string, new_string, count) ==
    LET r == str_replace_artifact(art, ctx_user, ctx_scopes, artifact_id,
                                  old_string, new_string, count)
    IN  /\ art # NoRow
        /\ WithinBounds(r.row, FALSE)
        /\ art' = r.row
        /\ last' = [op |-> "str_replace_artifact", result |-> r.response]
        /\ edits' = -1
        /\ UNCHANGED others

StrInsertArtifact(ctx_user, ctx_scopes, artifact_id, line_number, text) ==
    LET r == str_insert_artifact(art, ctx_user, ctx_scopes, artifact_id, line_number, text)
    IN  /\ art # NoRow
        /\ WithinBounds(r.row, FALSE)
        /\ art' = r.row
        /\ last' = [op |-> "str_insert_artifact", result |-> r.response]
        /\ edits' = -1
        /\ UNCHANGED others

Next ==
    \/ \E d \in CreateDatas : Create(Owner, d)
    \/ \E d \in UpdateDatas : Update(ArtifactId, Owner, d)
    \/ \E c \in ForeignCalls, d \in ForeignDatas : Update(c.id, c.user, d)
    \/ Delete(ArtifactId, Owner)
    \/ \E c \in ForeignCalls : Delete(c.id, c.user)
    \/ \E v \in Versions : RestoreVersion(ArtifactId, Owner, v)
    \/ \E o \in OldStrings, n \in NewStrings, c \in Counts :
          StrReplaceArtifact(Owner, Scopes, ArtifactId, o, n, c)
    \/ \E l \in LineNumbers, t \in InsertTexts :
          StrInsertArtifact(Owner, Scopes, ArtifactId, l, t)

Spec == Init /\ [][Next]_vars

(***************************************************************************)
(* The string tools on contents of several lines: an artifact is created   *)
(* and edited in place by str_insert_artifact and str_replace_artifact.    *)
(***************************************************************************)
\* "a\nb", "b\nab" and "ab"
EditContents == { <<"a", "\n", "b">>, <<"b", "\n", "a", "b">>, <<"a", "b">> }
EditCreateDatas == [title : Titles \cup {NoText}, content : EditContents, metadata : {"m0"}]
EditLineNumbers == 0..5
\* the inserted line: "x", or an empty line
EditInsertTexts == { <<"x">>, <<>> }
EditOldStrings == { <<"b">>, <<"a", "b">>, <<"c">> }
EditNewStrings == { <<"c">> }

EditNext ==
    \/ \E d \in EditCreateDatas : Create(Owner, d)
    \/ Delete(ArtifactId, Owner)
    \/ \E o \in EditOldStrings, n \in EditNewStrings, c \in Counts :
          StrReplaceArtifact(Owner, Scopes, ArtifactId, o, n, c)
    \/ \E l \in EditLineNumbers, t \in EditInsertTexts :
          StrInsertArtifact(Owner, Scopes, ArtifactId, l, t)

EditSpec == Init /\ [][EditNext]_vars

(***************************************************************************)
(* Callers and scopes: the tools of app/mcp/tools.py, delete_artifact of   *)
(* app/mcp/server.py and the REST handlers, called by the owner's keys     *)
(* with every set of scopes, and without authentication.                   *)
(***************************************************************************)
AllScopes == {"read", "write", "delete"}
ScopeSets == SUBSET AllScopes
ToolUsers == {Owner, NoUser}
ToolCreateDatas == [title : {NoText}, content : Contents, metadata : {"m0"}]
ToolUpdateDatas == { [title |-> NoText, content |-> <<"a", "b", "b">>, metadata |-> NoMeta],
                     [title |-> <<"t">>, content |-> NoText, metadata |-> NoMeta],
                     NoData }
ToolVersions == 1..MaxToolVersion

WithinToolBounds(after) ==
    \/ after = art
    \/ after = NoRow
    \/ after.version <= MaxToolVersion

\* one artifact id: a create that goes through needs the table empty
CreateArtifactTool(ctx_user, ctx_scopes, data) ==
    LET r == create_artifact(art, ctx_user, ctx_scopes, data)
    IN  /\ r.response = "ok" => art = NoRow
        /\ art' = r.row
        /\ last' = [op |-> "create_artifact", result |-> r.response]
        /\ edits' = -1
        /\ UNCHANGED others

UpdateArtifactTool(ctx_user, ctx_scopes, artifact_id, data) ==
    LET r == update_artifact(art, ctx_user, ctx_scopes, artifact_id, data)
    IN  /\ art # NoRow
        /\ WithinToolBounds(r.row)
        /\ art' = r.row
        /\ last' = [op |-> "update_artifact", result |-> r.response]
        /\ edits' = -1
        /\ UNCHANGED others

DeleteArtifactTool(ctx_user, ctx_scopes, artifact_id) ==
    LET r == delete_artifact(art, ctx_user, ctx_scopes, artifact_id)
    IN  /\ art # NoRow
        /\ art' = r.row
        /\ last' = [op |-> "delete_artifact", result |-> r.response]
        /\ edits' = -1
        /\ UNCHANGED others

RestoreArtifactVersionTool(ctx_user, ctx_scopes, artifact_id, version_number) ==
    LET r == restore_artifact_version(art, ctx_user, ctx_scopes, artifact_id, version_number)
    IN  /\ art # NoRow
        /\ WithinToolBounds(r.row)
        /\ art' = r.row
        /\ last' = [op |-> "restore_artifact_version", result |-> r.response]
        /\ edits' = -1
        /\ UNCHANGED others

ServerDeleteArtifact(ctx_user, token_scopes, artifact_id) ==
    LET r == server_delete_artifact(art, ctx_user, token_scopes, artifact_id)
    IN  /\ art # NoRow
        /\ art' = r.row
        /\ last' = [op |-> "server.delete_artifact", result |-> r.response]
        /\ edits' = -1
        /\ UNCHANGED others

ApiCreateArtifact(key_user, key_scopes, data) ==
    LET r == api_create_artifact(art, key_user, key_scopes, data)
    IN  /\ r.status = 201 => art = NoRow
        /\ art' = r.row
        /\ last' = [op |-> "POST /artifacts", result |-> r.status]
        /\ edits' = -1
        /\ UNCHANGED others

ApiUpdateArtifact(key_user, key_scopes, artifact_id, data) ==
    LET r == api_update_artifact(art, key_user, key_scopes, artifact_id, data)
    IN  /\ art # NoRow
        /\ WithinToolBounds(r.row)
        /\ art' = r.row
        /\ last' = [op |-> "PUT /artifacts/{id}", result |-> r.status]
        /\ edits' = -1
        /\ UNCHANGED others

ApiDeleteArtifact(key_user, key_scopes, artifact_id) ==
    LET r == api_delete_artifact(art, key_user, key_scopes, artifact_id)
    IN  /\ art # NoRow
        /\ art' = r.row
        /\ last' = [op |-> "DELETE /artifacts/{id}", result |-> r.status]
        /\ edits' = -1
        /\ UNCHANGED others

ApiRestoreArtifactVersion(key_user, key_scopes, artifact_id, version_number) ==
    LET r == api_restore_artifact_version(art, key_user, key_scopes, artifact_id, version_number)
    IN  /\ art # NoRow
        /\ WithinToolBounds(r.row)
        /\ art' = r.row
        /\ last' = [op |-> "POST /artifacts/{id}/restore/{n}", result |-> r.status]
        /\ edits' = -1
        /\ UNCHANGED others

AccessNext ==
    \/ \E u \in ToolUsers, sc \in ScopeSets, d \in ToolCreateDatas : CreateArtifactTool(u, sc, d)
    \/ \E u \in ToolUsers, sc \in ScopeSets, d \in ToolUpdateDatas :
          UpdateArtifactTool(u, sc, ArtifactId, d)
    \/ \E u \in ToolUsers, sc \in ScopeSets : DeleteArtifactTool(u, sc, ArtifactId)
    \/ \E u \in ToolUsers, sc \in ScopeSets, v \in ToolVersions :
          RestoreArtifactVersionTool(u, sc, ArtifactId, v)
    \/ \E u \in ToolUsers, sc \in ScopeSets, o \in OldStrings, n \in NewStrings, c \in Counts :
          StrReplaceArtifact(u, sc, ArtifactId, o, n, c)
    \/ \E u \in ToolUsers, sc \in ScopeSets, l \in LineNumbers, t \in InsertTexts :
          StrInsertArtifact(u, sc, ArtifactId, l, t)
    \/ \E u \in ToolUsers, sc \in ScopeSets : ServerDeleteArtifact(u, sc, ArtifactId)
    \/ \E u \in ToolUsers, sc \in ScopeSets, d \in ToolCreateDatas : ApiCreateArtifact(u, sc, d)
    \/ \E u \in ToolUsers, sc \in ScopeSets, d \in ToolUpdateDatas :
          ApiUpdateArtifact(u, sc, ArtifactId, d)
    \/ \E u \in ToolUsers, sc \in ScopeSets : ApiDeleteArtifact(u, sc, ArtifactId)
    \/ \E u \in ToolUsers, sc \in ScopeSets, v \in ToolVersions :
          ApiRestoreArtifactVersion(u, sc, ArtifactId, v)

AccessSpec == Init /\ [][AccessNext]_vars

(***************************************************************************)
(* The text utilities called on their own: a call is drawn with its         *)
(* arguments, the function is applied and its result kept with the call.    *)
(* last holds the call, then the call and what it returned.                 *)
(***************************************************************************)
\* lines a markdown content is made of: "# a", "## b", "c", "#", "", " ", "# abcd"
TitleLines == { <<"#", " ", "a">>, <<"#", "#", " ", "b">>, <<"c">>, <<"#">>, <<>>, <<" ">>,
                <<"#", " ", "a", "b", "c", "d">> }
TitleContents == { JoinLines(ls) : ls \in UNION { [1..n -> TitleLines] : n \in 1..MaxLines } }
MaxLengths == {3, MaxTitleLength}
ReplaceContents == UNION { [1..n -> {"a", "b"}] : n \in 0..MaxTextLen }
ReplaceOldStrings == { <<>>, <<"a">>, <<"a", "a">>, <<"a", "b">> }
ReplaceNewStrings == { <<>>, <<"b">>, <<"a", "a">> }
\* count is Optional[int]: None or any integer
ReplaceCounts == {NoCount} \cup { <<n>> : n \in (-1)..MaxLimit }

TextCalls ==
    { [op |-> "call", fn |-> "extract_title_from_content", content |-> c, max_length |-> m]
        : c \in TitleContents, m \in MaxLengths }
    \cup
    { [op |-> "call", fn |-> "find_and_replace", content |-> q[1], old_string |-> q[2],
       new_string |-> q[3], count |-> q[4]]
        : q \in ReplaceContents \X ReplaceOldStrings \X ReplaceNewStrings \X ReplaceCounts }

TextInit == /\ art = NoRow
            /\ last \in TextCalls
            /\ edits = -1
            /\ api_keys = [k \in KeyIds |-> NoKey]
            /\ now = 0
            /\ ctx = [user_id |-> NoUser, scopes |-> {}, server_user_id |-> NoUser]
            /\ revoked = {}
            /\ reqs = [r \in Requests |-> Idle]

ExtractTitleFromContent ==
    /\ last.op = "call"
    /\ last.fn = "extract_title_from_content"
    /\ last' = [op |-> "return", call |-> last,
                result |-> extract_title_from_content(last.content, last.max_length)]
    /\ UNCHANGED <<art, edits>>
    /\ UNCHANGED others

FindAndReplace ==
    /\ last.op = "call"
    /\ last.fn = "find_and_replace"
    /\ last' = [op |-> "return", call |-> last,
                result |-> find_and_replace(last.content, last.old_string,
                                            last.new_string, last.count)]
    /\ UNCHANGED <<art, edits>>
    /\ UNCHANGED others

TextNext == ExtractTitleFromContent \/ FindAndReplace

TextSpec == TextInit /\ [][TextNext]_vars

(***************************************************************************)
(* Field shapes: the request models of app/models/artifacts.py accept a    *)
(* title of 1 to 200 characters, or none, and a content of 1 to 100,000    *)
(* characters; the REST handlers are called with data that passed them.     *)
(***************************************************************************)
Repeat(c, n) == [i \in 1..n |-> c]

\* title: Optional[str] = Field(None, min_length=1, max_length=200)
ValidTitle(title) == title = NoText \/ Len(title) \in 1..MaxTitleLength

\* content: str = Field(..., min_length=1, max_length=100000)
ValidContent(content) == content # NoText /\ Len(content) \in 1..MaxContentLength

ArtifactCreate(data) == ValidTitle(data.title) /\ ValidContent(data.content)

ArtifactUpdate(data) == ValidTitle(data.title) /\ (data.content = NoText \/ ValidContent(data.content))

\* titles sent: none, "", "t", 200 and 201 characters
SentTitles == { NoText, <<>>, <<"t">>, Repeat("a", MaxTitleLength), Repeat("a", MaxTitleLength + 1) }
\* contents sent: "", " ", "ab", "# a", " \n"
SentContents == { <<>>, <<" ">>, <<"a", "b">>, <<"#", " ", "a">>, <<" ", "\n">> }
FieldCreateDatas ==
    { d \in [title : SentTitles, content : SentContents, metadata : {"m0"}] : ArtifactCreate(d) }
FieldUpdateDatas ==
    { d \in [title : SentTitles, content : SentContents \cup {NoText}, metadata : {NoMeta, "m1"}] :
        ArtifactUpdate(d) }

FieldNext ==
    \/ \E d \in FieldCreateDatas : ApiCreateArtifact(Owner, Scopes, d)
    \/ \E d \in FieldUpdateDatas : ApiUpdateArtifact(Owner, Scopes, ArtifactId, d)
    \/ ApiDeleteArtifact(Owner, Scopes, ArtifactId)

FieldSpec == Init /\ [][FieldNext]_vars

(***************************************************************************)
(* API keys (app/services/api_keys.py) and the token verifiers of the MCP  *)
(* servers (app/mcp_server/auth.py, app/mcp/server.py).  A row keeps the   *)
(* key it was generated with in place of key_hash and lookup_hash: the     *)
(* bcrypt check accepts a presented key exactly when it is the generated  *)
(* one.  name, last_4 and last_used_at are left out of the rows: nothing   *)
(* below reads them.  A new row is active, as ApiKeyResponse.is_active     *)
(* and the count of active keys in create have it.                         *)
(***************************************************************************)
KEY_PREFIX == "sk_prod_"
MAX_KEYS_PER_USER == 10
MaxNow == 2

\* optional values: an expiry time <<t>> or none, a list of scopes or none,
\* a flag <<b>> or none
NoExpiry == <<>>
NoScopes == {"None"}
NoFlag == <<>>

\* _generate_api_key: the key generated for the row with this id
GeneratedKey(key_id) == [prefix |-> KEY_PREFIX, secret |-> key_id]

\* the keys a client presents: the generated ones, a well-formed key that
\* was never generated and a key with another prefix
PresentedKeys == {GeneratedKey(k) : k \in KeyIds}
                 \cup {[prefix |-> KEY_PREFIX, secret |-> "zz"],
                       [prefix |-> "sk_test_", secret |-> "k1"]}

ActiveKeysOf(keys, user_id) ==
    {k \in KeyIds : keys[k] # NoKey /\ keys[k].user_id = user_id /\ keys[k].is_active}

\* ApiKeyCreate.validate_expiry
ValidExpiry(expires_at, clock) ==
    IF expires_at = NoExpiry THEN TRUE ELSE expires_at[1] > clock

\* ApiKeyService.create: the new row takes the id key_id
api_key_create(keys, key_id, user_id, data) ==
    IF Cardinality(ActiveKeysOf(keys, user_id)) >= MAX_KEYS_PER_USER
    THEN [result |-> "ValueError", keys |-> keys]
    ELSE [result |-> GeneratedKey(key_id),
          keys |-> [keys EXCEPT ![key_id] =
                       [id |-> key_id, user_id |-> user_id, key |-> GeneratedKey(key_id),
                        scopes |-> data.scopes, expires_at |-> data.expires_at,
                        is_active |-> TRUE]]]

KeyMatches(keys, key_id, user_id) ==
    keys[key_id] # NoKey /\ keys[key_id].user_id = user_id

\* ApiKeyService.update
api_key_update(keys, key_id, user_id, data) ==
    IF data.scopes = NoScopes /\ data.is_active = NoFlag
    THEN [result |-> IF KeyMatches(keys, key_id, user_id) THEN keys[key_id] ELSE None,
          keys |-> keys]
    ELSE IF ~KeyMatches(keys, key_id, user_id)
    THEN [result |-> None, keys |-> keys]
    ELSE LET row == [keys[key_id] EXCEPT
                        !.scopes = IF data.scopes = NoScopes THEN @ ELSE data.scopes,
                        !.is_active = IF data.is_active = NoFlag THEN @ ELSE data.is_active[1]]
         IN  [result |-> row, keys |-> [keys EXCEPT ![key_id] = row]]

\* ApiKeyService.delete
api_key_delete(keys, key_id, user_id) ==
    IF KeyMatches(keys, key_id, user_id)
    THEN [result |-> TRUE, keys |-> [keys EXCEPT ![key_id].is_active = FALSE]]
    ELSE [result |-> FALSE, keys |-> keys]

Invalid(error_message) ==
    [is_valid |-> FALSE, user_id |-> NoUser, key_id |-> "None", scopes |-> {},
     error_message |-> error_message]

\* ApiKeyService.validate that accepts a deactivated row
validate_inactive_too(keys, api_key, clock) ==
    LET found == {k \in KeyIds : keys[k] # NoKey /\ keys[k].key = api_key}
    IN  IF api_key.prefix # KEY_PREFIX THEN Invalid("Invalid key format")
        ELSE IF found = {} THEN Invalid("Invalid API key")
        ELSE LET key_record == keys[CHOOSE k \in found : TRUE]
             IN  IF key_record.expires_at # NoExpiry /\ key_record.expires_at[1] < clock
                 THEN Invalid("API key has expired")
                 ELSE [is_valid |-> TRUE, user_id |-> key_record.user_id,
                       key_id |-> key_record.id, scopes |-> key_record.scopes,
                       error_message |-> "None"]

\* ApiKeyService.validate
validate(keys, api_key, clock) ==
    LET found == {k \in KeyIds : /\ keys[k] # NoKey
                                 /\ keys[k].is_active
                                 /\ keys[k].key = api_key}
    IN  IF api_key.prefix # KEY_PREFIX THEN Invalid("Invalid key format")
        ELSE IF found = {} THEN Invalid("Invalid API key")
        ELSE LET key_record == keys[CHOOSE k \in found : TRUE]
             IN  IF key_record.expires_at # NoExpiry /\ key_record.expires_at[1] < clock
                 THEN Invalid("API key has expired")
                 ELSE [is_valid |-> TRUE, user_id |-> key_record.user_id,
                       key_id |-> key_record.id, scopes |-> key_record.scopes,
                       error_message |-> "None"]

\* ApiKeyService.cleanup_expired
cleanup_expired(keys, clock) ==
    LET expired == {k \in KeyIds : /\ keys[k] # NoKey
                                   /\ keys[k].is_active
                                   /\ keys[k].expires_at # NoExpiry
                                   /\ keys[k].expires_at[1] < clock}
    IN  [result |-> Cardinality(expired),
         keys |-> [k \in KeyIds |-> IF k \in expired
                                    THEN [keys[k] EXCEPT !.is_active = FALSE]
                                    ELSE keys[k]]]

\* validation.scopes or ["read", "write"]
ScopesOrDefault(scopes) == IF scopes = {} THEN {"read", "write"} ELSE scopes

\* verify_token of app/mcp_server/auth.py: the context variables it sets and
\* the scopes of the AccessToken it returns (NoScopes when it returns None)
verify_token(keys, token, clock) ==
    LET validation == validate(keys, token, clock)
    IN  IF validation.is_valid
        THEN [user_id |-> validation.user_id,
              scopes |-> ScopesOrDefault(validation.scopes),
              token_scopes |-> ScopesOrDefault(validation.scopes)]
        ELSE [user_id |-> NoUser, scopes |-> {}, token_scopes |-> NoScopes]

\* ApiKeyAuth.verify_token of app/mcp/server.py: this module has a context
\* variable for the user id and none for the scopes, which live in the
\* AccessToken only
server_verify_token(keys, token, clock) ==
    LET validation == validate(keys, token, clock)
    IN  IF validation.is_valid
        THEN [user_id |-> validation.user_id,
              token_scopes |-> ScopesOrDefault(validation.scopes)]
        ELSE [user_id |-> NoUser, token_scopes |-> NoScopes]

KeyUsers == {Owner, "u2"}
KeyScopeSets == {{}, {"read"}}
Expiries == {NoExpiry, <<1>>}
KeyCreateDatas == [scopes : KeyScopeSets, expires_at : Expiries]
KeyUpdateDatas == [scopes : {NoScopes, {}}, is_active : {NoFlag, <<TRUE>>, <<FALSE>>}]

\* the next free row: ids are generated, never reused
FreshKeyId == CHOOSE k \in KeyIds :
                 /\ api_keys[k] = NoKey
                 /\ \A j \in KeyIds : api_keys[j] = NoKey => (k = "k1" \/ j # "k1")

CreateApiKey(user_id, data) ==
    LET r == api_key_create(api_keys, FreshKeyId, user_id, data)
    IN  /\ \E k \in KeyIds : api_keys[k] = NoKey
        /\ ValidExpiry(data.expires_at, now)
        /\ api_keys' = r.keys
        /\ last' = [op |-> "create_api_key", result |-> r.result]
        /\ UNCHANGED <<art, edits, now, ctx, revoked, reqs>>

UpdateApiKey(key_id, user_id, data) ==
    LET r == api_key_update(api_keys, key_id, user_id, data)
    IN  /\ api_keys' = r.keys
        /\ last' = [op |-> "update_api_key", result |-> Outcome(r.result)]
        /\ UNCHANGED <<art, edits, now, ctx, revoked, reqs>>

DeleteApiKey(key_id, user_id) ==
    LET r == api_key_delete(api_keys, key_id, user_id)
    IN  /\ api_keys' = r.keys
        /\ revoked' = IF r.result THEN revoked \cup {key_id} ELSE revoked
        /\ last' = [op |-> "delete_api_key", key_id |-> key_id, result |-> r.result]
        /\ UNCHANGED <<art, edits, now, ctx, reqs>>

Validate(api_key) ==
    /\ last' = [op |-> "validate", api_key |-> api_key,
                result |-> validate(api_keys, api_key, now)]
    /\ UNCHANGED <<art, edits, api_keys, now, ctx, revoked, reqs>>

CleanupExpired ==
    LET r == cleanup_expired(api_keys, now)
    IN  /\ api_keys' = r.keys
        /\ last' = [op |-> "cleanup_expired", result |-> r.result]
        /\ UNCHANGED <<art, edits, now, ctx, revoked, reqs>>

VerifyToken(token) ==
    LET r == verify_token(api_keys, token, now)
    IN  /\ ctx' = [ctx EXCEPT !.user_id = r.user_id, !.scopes = r.scopes]
        /\ last' = [op |-> "verify_token", api_key |-> token, result |-> r.token_scopes]
        /\ UNCHANGED <<art, edits, api_keys, now, revoked, reqs>>

ServerVerifyToken(token) ==
    LET r == server_verify_token(api_keys, token, now)
    IN  /\ ctx' = [ctx EXCEPT !.server_user_id = r.user_id]
        /\ last' = [op |-> "server_verify_token", api_key |-> token,
                    result |-> r.token_scopes]
        /\ UNCHANGED <<art, edits, api_keys, now, revoked, reqs>>

\* time passes
Tick ==
    /\ now < MaxNow
    /\ now' = now + 1
    /\ last' = [op |-> "tick", result |-> "none"]
    /\ UNCHANGED <<art, edits, api_keys, ctx, revoked, reqs>>

KeyNext ==
    \/ \E d \in KeyCreateDatas : CreateApiKey(Owner, d)
    \/ \E k \in KeyIds, u \in KeyUsers, d \in KeyUpdateDatas : UpdateApiKey(k, u, d)
    \/ \E k \in KeyIds, u \in KeyUsers : DeleteApiKey(k, u)
    \/ \E t \in PresentedKeys : Validate(t)
    \/ CleanupExpired
    \/ \E t \in PresentedKeys : VerifyToken(t)
    \/ \E t \in PresentedKeys : ServerVerifyToken(t)
    \/ Tick

KeySpec == Init /\ [][KeyNext]_vars

(***************************************************************************)
(* Requests served at the same time.  The store is the only thing the      *)
(* requests share; each call a request makes to it is one step and the     *)
(* steps of different requests interleave freely.  update (artifacts.py    *)
(* 85-120) reads the row with get and then issues one table update;        *)
(* restore_version (artifacts.py 264-287) reads with get_version and then  *)
(* issues one table update; str_insert_artifact and str_replace_artifact   *)
(* (app/mcp_server/tools.py) read with get, compute the new content and    *)
(* then call update.  A request keeps what it read in its locals.          *)
(***************************************************************************)
MaxRaceVersion == 4

\* the new content str_insert_artifact computes from the content it read
str_insert_content(content, line_number, text) ==
    LET lines == SplitLines(content)
    IN  IF line_number < 1 \/ line_number > Len(lines) + 1
        THEN [ok |-> FALSE, error |-> "Line number out of range"]
        ELSE [ok |-> TRUE, modified |-> JoinLines(ListInsert(lines, line_number - 1, text))]

\* the new content str_replace_artifact computes from the content it read
str_replace_content(content, old_string, new_string, count) ==
    IF StrCount(content, old_string) = 0
    THEN [ok |-> FALSE, error |-> "String not found in artifact"]
    ELSE [ok |-> TRUE,
          modified |-> StrReplace(content, old_string, new_string,
                                  IF count = NoCount THEN -1 ELSE count[1])]

RaceCreateDatas == { [title |-> NoText, content |-> <<"a">>, metadata |-> "m0"] }
RaceUpdateDatas == { ContentOnly(<<"x">>), ContentOnly(<<"y">>),
                     [title |-> <<"t">>, content |-> NoText, metadata |-> NoMeta] }
RaceInserts == { [line_number |-> 1, text |-> <<"p">>],
                 [line_number |-> 2, text |-> <<"q">>],
                 [line_number |-> 9, text |-> <<"p">>] }
RaceReplaces == { [old_string |-> <<"a">>, new_string |-> <<"c">>, count |-> NoCount],
                  [old_string |-> <<"z">>, new_string |-> <<"c">>, count |-> NoCount] }
RaceVersions == {1}

\* the requests that have neither answered nor yet to begin
InFlight == {r \in Requests : reqs[r].pc \notin {"idle", "done"}}

\* a request begins while the writes that may follow stay within the bound
MayBegin(r) ==
    /\ art # NoRow
    /\ reqs[r] = Idle
    /\ art.version + Cardinality(InFlight) < MaxRaceVersion

\* the locals of a request: the call, the version and content it read, the
\* ArtifactUpdate it passes to update, the update_data it writes, its answer
Began(op, call, pc) ==
    [pc |-> pc, op |-> op, call |-> call, read_version |-> 0, read_content |-> NoText,
     data |-> NoData, update_data |-> NoData, result |-> "none"]

Answer(req, result) == [req EXCEPT !.pc = "done", !.result = result]

RaceStep == [op |-> "request", result |-> "none"]

BeginUpdate(r, data) ==
    /\ MayBegin(r)
    /\ reqs' = [reqs EXCEPT ![r] = [Began("update", data, "get") EXCEPT !.data = data]]
    /\ last' = RaceStep
    /\ UNCHANGED <<art, edits, api_keys, now, ctx, revoked>>

BeginStrInsert(r, call) ==
    /\ MayBegin(r)
    /\ reqs' = [reqs EXCEPT ![r] = Began("str_insert_artifact", call, "load")]
    /\ last' = RaceStep
    /\ UNCHANGED <<art, edits, api_keys, now, ctx, revoked>>

BeginStrReplace(r, call) ==
    /\ MayBegin(r)
    /\ reqs' = [reqs EXCEPT ![r] = Began("str_replace_artifact", call, "load")]
    /\ last' = RaceStep
    /\ UNCHANGED <<art, edits, api_keys, now, ctx, revoked>>

BeginRestore(r, version_number) ==
    /\ MayBegin(r)
    /\ reqs' = [reqs EXCEPT ![r] = Began("restore_version", version_number, "get_version")]
    /\ last' = RaceStep
    /\ UNCHANGED <<art, edits, api_keys, now, ctx, revoked>>

\* existing = await artifact_service.get(..) of a string tool, and the new
\* content computed from it
LoadStep(r) ==
    LET req      == reqs[r]
        existing == get(art, ArtifactId, Owner)
        edited   == IF req.op = "str_insert_artifact"
                    THEN str_insert_content(existing.content, req.call.line_number,
                                            req.call.text)
                    ELSE str_replace_content(existing.content, req.call.old_string,
                                             req.call.new_string, req.call.count)
    IN  /\ req.pc = "load"
        /\ reqs' = [reqs EXCEPT ![r] =
                      IF existing = None THEN Answer(req, "Artifact not found")
                      ELSE IF ~edited.ok THEN Answer(req, edited.error)
                      ELSE [req EXCEPT !.pc = "get",
                                       !.read_version = existing.version,
                                       !.read_content = existing.content,
                                       !.data = ContentOnly(edited.modified)]]
        /\ last' = RaceStep
        /\ UNCHANGED <<art, edits, api_keys, now, ctx, revoked>>

\* existing = await self.get(..) of update, and the update_data it prepares
GetStep(r) ==
    LET req         == reqs[r]
        existing    == get(art, ArtifactId, Owner)
        update_data == UpdateData(req.data)
    IN  /\ req.pc = "get"
        /\ reqs' = [reqs EXCEPT ![r] =
                      IF existing = None \/ existing.user_id # Owner THEN Answer(req, "None")
                      ELSE IF update_data = NoData THEN Answer(req, "ok")
                      ELSE [req EXCEPT !.pc = "write",
                                       !.read_version = IF req.op = "update"
                                                        THEN existing.version ELSE @,
                                       !.update_data = update_data]]
        /\ last' = RaceStep
        /\ UNCHANGED <<art, edits, api_keys, now, ctx, revoked>>

\* version = await self.get_version(..) of restore_version
GetVersionStep(r) ==
    LET req     == reqs[r]
        version == get_version(art, ArtifactId, Owner, req.call)
    IN  /\ req.pc = "get_version"
        /\ reqs' = [reqs EXCEPT ![r] =
                      IF version = None THEN Answer(req, "None")
                      ELSE [req EXCEPT !.pc = "write",
                                       !.read_version = art.version,
                                       !.update_data = [title    |-> version.title,
                                                        content  |-> version.content,
                                                        metadata |-> version.metadata]]]
        /\ last' = RaceStep
        /\ UNCHANGED <<art, edits, api_keys, now, ctx, revoked>>

\* table("artifacts").update(update_data)...execute() and the answer
WriteStep(r) ==
    LET req == reqs[r]
    IN  /\ req.pc = "write"
        /\ art' = db_update(art, ArtifactId, Owner, req.update_data)
        /\ reqs' = [reqs EXCEPT ![r] =
                      Answer(req, IF RowMatches(art, ArtifactId, Owner) THEN "ok" ELSE "None")]
        /\ last' = RaceStep
        /\ edits' = -1
        /\ UNCHANGED <<api_keys, now, ctx, revoked>>

\* the answers are out and the next requests may come
Respond ==
    /\ \A r \in Requests : reqs[r].pc = "done"
    /\ reqs' = [r \in Requests |-> Idle]
    /\ last' = RaceStep
    /\ UNCHANGED <<art, edits, api_keys, now, ctx, revoked>>

RaceNext ==
    \/ \E d \in RaceCreateDatas : Create(Owner, d)
    \/ \E r \in Requests, d \in RaceUpdateDatas : BeginUpdate(r, d)
    \/ \E r \in Requests, c \in RaceInserts : BeginStrInsert(r, c)
    \/ \E r \in Requests, c \in RaceReplaces : BeginStrReplace(r, c)
    \/ \E r \in Requests, v \in RaceVersions : BeginRestore(r, v)
    \/ \E r \in Requests : LoadStep(r)
    \/ \E r \in Requests : GetStep(r)
    \/ \E r \in Requests : GetVersionStep(r)
    \/ \E r \in Requests : WriteStep(r)
    \/ Respond

RaceSpec == Init /\ [][RaceNext]_vars

(***************************************************************************)
(* Properties                                                              *)
(***************************************************************************)
\* the version numbers the stored snapshots carry
HistoryVersions(row) == { row.version_history[i].version : i \in 1..Len(row.version_history) }

\* the stored snapshot of version v
SnapshotAt(row, v) == row.version_history[CHOOSE i \in 1..Len(row.version_history) :
                                             row.version_history[i].version = v]

\* every call the model makes of update()
UpdateCalls == { [id |-> ArtifactId, user |-> Owner, data |-> d] : d \in UpdateDatas }
               \cup { [id |-> c.id, user |-> c.user, data |-> d] : c \in ForeignCalls, d \in ForeignDatas }

\* C1: a fresh artifact (version 1, no history, no edits) that has since seen
\* N update calls, each changing the content, and nothing else, is at version
\* 1 + N with a total edit count of N.
C1_VersionCountsContentUpdates ==
    edits >= 0 => /\ art.version = 1 + edits
                  /\ get_versions(art, ArtifactId, Owner).current_version = 1 + edits
                  /\ get_versions(art, ArtifactId, Owner).version_count = edits
                  /\ edits = 0 => art.version_history = <<>>

C1_Witness == edits = 25 /\ art.version = 26 /\ last = [op |-> "update", result |-> "ok"]

\* C2: an update call that supplies only metadata leaves version, total edit
\* count, history, title and content as they were; only metadata may change.
C2_MetadataOnlyKeepsVersion ==
    [][\A c \in UpdateCalls :
         (/\ c.data.title = NoText
          /\ c.data.content = NoText
          /\ Update(c.id, c.user, c.data))
         => /\ art'.version = art.version
            /\ art'.version_count = art.version_count
            /\ art'.version_history = art.version_history
            /\ art'.title = art.title
            /\ art'.content = art.content]_vars

C2_Witness == /\ last = [op |-> "update", result |-> "ok"]
              /\ art # NoRow
              /\ art.metadata = "m1"
              /\ art.version = 26
              /\ art.version_count = 25
              /\ art.version_history[1].metadata = "m0"

\* C3: the history never holds more than 20 snapshots, whatever creates,
\* updates, string edits and restores ran; a write that records a snapshot
\* puts the version it replaces in front, and when 20 are already held the
\* snapshot that goes is the one with the smallest version number.
C3_HistoryCappedOldestEvicted ==
    /\ [](art # NoRow => Len(art.version_history) <= RetentionCap)
    /\ [][(/\ art # NoRow
           /\ art' # NoRow
           /\ \/ art'.title # art.title
              \/ art'.content # art.content
              \/ art'.version_history # art.version_history)
          => LET old == art.version_history
                 new == art'.version_history
             IN  /\ new # <<>>
                 /\ new[1].version = art.version
                 /\ new[1].content = art.content
                 /\ new = SubSeq(<<new[1]>> \o old, 1, Min(Len(old) + 1, RetentionCap))
                 /\ Len(old) = RetentionCap
                    => /\ old[RetentionCap].version = SetMin(HistoryVersions(art))
                       /\ old[RetentionCap].version \notin HistoryVersions(art')]_vars

C3_Witness == /\ last = [op |-> "restore_version", result |-> "ok"]
              /\ art # NoRow
              /\ art.version = 27
              /\ Len(art.version_history) = RetentionCap
              /\ HistoryVersions(art) = 7..26

\* C4: the total edit count of an artifact never decreases, and it keeps
\* counting past the retention cap: after 25 content-changing updates of a
\* fresh artifact it is 25 while at most 20 snapshots are held.
C4_EditCountNeverDecreases ==
    /\ [](edits = 25 => /\ get_versions(art, ArtifactId, Owner).version_count = 25
                        /\ Len(art.version_history) <= RetentionCap)
    /\ [][(art # NoRow /\ art' # NoRow)
          => get_versions(art', ArtifactId, Owner).version_count
               >= get_versions(art, ArtifactId, Owner).version_count]_vars

C4_Witness == /\ edits = 25
              /\ get_versions(art, ArtifactId, Owner).version_count = 25
              /\ Len(art.version_history) = RetentionCap

\* C5: a successful restore_version(v) with v below the current version c
\* leaves the content of snapshot v as the content and c + 1 as the version.
C5_RestoreMovesVersionForward ==
    [][\A v \in Versions :
         (/\ last'.op = "restore_version"
          /\ art # NoRow
          /\ v < art.version
          /\ get_version(art, ArtifactId, Owner, v) # None
          /\ RestoreVersion(ArtifactId, Owner, v))
         => /\ art'.content = get_version(art, ArtifactId, Owner, v).content
            /\ art'.version = art.version + 1]_vars

\* C6: get_version answers None for every version number that is neither the
\* current version nor carried by a snapshot still held, the versions the
\* retention cap evicted included: after 25 content-changing updates of a
\* fresh artifact version 3 is gone.
C6_EvictedVersionNotFound ==
    art # NoRow =>
      /\ \A v \in Versions :
           (v # art.version /\ v \notin HistoryVersions(art))
           => get_version(art, ArtifactId, Owner, v) = None
      /\ \A v \in Versions :
           v < art.version - RetentionCap => get_version(art, ArtifactId, Owner, v) = None
      /\ edits = 25 => get_version(art, ArtifactId, Owner, 3) = None

C6_Witness == /\ edits = 25
              /\ get_version(art, ArtifactId, Owner, 3) = None
              /\ get_version(art, ArtifactId, Owner, 6) # None

\* C7: get_versions returns at most 10 summaries however many snapshots are
\* held; they are the 10 most recent snapshots, newest first; after 25
\* content-changing updates it returns exactly 10.
C7_VersionsListsTenNewest ==
    art # NoRow =>
      LET versions == get_versions(art, ArtifactId, Owner).versions
      IN  /\ Len(versions) <= 10
          /\ Len(versions) = Min(Len(art.version_history), 10)
          /\ \A i \in 1..Len(versions) :
               /\ versions[i].version = art.version - i
               /\ versions[i].title = SnapshotAt(art, art.version - i).title
          /\ edits = 25 => Len(versions) = 10

C7_Witness == /\ edits = 25
              /\ Len(art.version_history) = RetentionCap
              /\ Len(get_versions(art, ArtifactId, Owner).versions) = 10
              /\ get_versions(art, ArtifactId, Owner).versions[10].version = 16

\* version numbers worth asking a row for: 1, every number from the one
\* evicted last up to the one after the current version
NearVersions(row) ==
    { v \in Versions : v = 1 \/ (v >= row.version - RetentionCap - 1 /\ v <= row.version + 1) }

\* the ends of that range and the current version's neighbours
ProbeVersions(row) ==
    { row.version + 1, row.version, row.version - 1,
      row.version - RetentionCap, row.version - RetentionCap - 1 } \cap Versions

\* C8: for two versions a and b that can both be retrieved, the content
\* length change of diff(a, b) is the negation of that of diff(b, a).
C8_DiffAntisymmetric ==
    art # NoRow =>
      \A a \in NearVersions(art), b \in ProbeVersions(art) :
        LET ab == get_version_diff(art, ArtifactId, Owner, a, b)
            ba == get_version_diff(art, ArtifactId, Owner, b, a)
        IN  (/\ get_version(art, ArtifactId, Owner, a) # None
             /\ get_version(art, ArtifactId, Owner, b) # None)
            => /\ ab # None
               /\ ba # None
               /\ ab.content_length_change = 0 - ba.content_length_change

C8_Witness == /\ art # NoRow
              /\ art.version = 3
              /\ get_version_diff(art, ArtifactId, Owner, 1, 2) # None
              /\ get_version_diff(art, ArtifactId, Owner, 1, 2).content_length_change = 1
              /\ get_version_diff(art, ArtifactId, Owner, 2, 1).content_length_change = 0 - 1

\* what C9 says of one diff
DiffAgrees(row, a, b) ==
    LET from_v == get_version(row, ArtifactId, Owner, a)
        to_v   == get_version(row, ArtifactId, Owner, b)
        d      == get_version_diff(row, ArtifactId, Owner, a, b)
    IN  IF from_v = None \/ to_v = None THEN d = None
        ELSE /\ d # None
             /\ d.title_changed = (from_v.title # to_v.title)
             /\ (d.old_title = NoText) = ~d.title_changed
             /\ (d.new_title = NoText) = ~d.title_changed
             /\ d.title_changed => d.old_title = from_v.title /\ d.new_title = to_v.title
             /\ d.content_length_change = Len(to_v.content) - Len(from_v.content)
             /\ d.metadata_changed = (from_v.metadata # to_v.metadata)

\* C9: diff(from, to) is None when either version cannot be retrieved;
\* otherwise title_changed says whether the titles differ, old_title and
\* new_title are null exactly when it is false, content_length_change is
\* len(to.content) - len(from.content), and metadata_changed says whether the
\* metadata differ.
C9_DiffReportsChanges ==
    art # NoRow =>
      \A a \in NearVersions(art), b \in ProbeVersions(art) :
        DiffAgrees(art, a, b) /\ DiffAgrees(art, b, a)

C9_Witness == /\ art # NoRow
              /\ art.version = 3
              /\ get_version_diff(art, ArtifactId, Owner, 1, 3) # None
              /\ get_version_diff(art, ArtifactId, Owner, 1, 3).title_changed
              /\ get_version_diff(art, ArtifactId, Owner, 1, 3).metadata_changed
              /\ get_version_diff(art, ArtifactId, Owner, 1, 3).content_length_change # 0
              /\ get_version_diff(art, ArtifactId, Owner, 1, 4) = None

\* C10: a string replace whose target does not occur in the current content
\* fails with the no-match error and leaves content, title, version, total
\* edit count and history as they were.
C10_NoMatchLeavesArtifact ==
    [][\A o \in OldStrings \ {<<>>}, n \in NewStrings, c \in Counts :
         (/\ last'.op = "str_replace_artifact"
          /\ art # NoRow
          /\ StrCount(art.content, o) = 0
          /\ StrReplaceArtifact(Owner, Scopes, ArtifactId, o, n, c))
         => /\ last'.result = "String not found"
            /\ art' = art]_vars

C10_Witness == /\ last = [op |-> "str_replace_artifact", result |-> "String not found"]
               /\ art # NoRow
               /\ art.version = 26
               /\ StrCount(art.content, <<"c">>) = 0

\* C11: insert_at_line, and str_insert_artifact through it, accepts exactly
\* the line numbers 1 .. lines + 1 of the current content and answers a range
\* error for every other one, 0 and lines + 2 included; a refused insert
\* leaves the artifact as it was, an accepted one puts the text as a new line
\* before the line that was at that position, or last for lines + 1.
C11_InsertRange ==
    /\ [](art # NoRow =>
            \A l \in EditLineNumbers, t \in EditInsertTexts :
              LET r == insert_at_line(art.content, l, t)
              IN  /\ r.ok = (l \in 1..(Len(SplitLines(art.content)) + 1))
                  /\ ~r.ok => r.error = "Line number out of range")
    /\ [][\A l \in EditLineNumbers, t \in EditInsertTexts :
            (/\ last'.op = "str_insert_artifact"
             /\ StrInsertArtifact(Owner, Scopes, ArtifactId, l, t))
            => LET lines == SplitLines(art.content)
               IN  IF l \in 1..(Len(lines) + 1)
                   THEN /\ last'.result = "ok"
                        /\ SplitLines(art'.content)
                             = SubSeq(lines, 1, l - 1) \o <<t>> \o SubSeq(lines, l, Len(lines))
                        /\ art'.version = art.version + 1
                   ELSE /\ last'.result \in {"Line number out of range",
                                             "Line number must be 1 or greater"}
                        /\ art' = art]_vars

C11_Witness == /\ last = [op |-> "str_insert_artifact", result |-> "Line number out of range"]
               /\ art # NoRow
               /\ art.version = 2
               /\ art.content = <<"a", "\n", "x", "\n", "b">>

InsufficientWrite == "Insufficient permissions. Required scope: write"

InsufficientDelete == "Insufficient permissions. Required scope: delete"

\* C13: delete_artifact of app.mcp.server, called with a key that holds read
\* and write but not delete, answers "Insufficient permissions. Required
\* scope: delete" and the artifact is not deleted.
C13_ServerDeleteRequiresDeleteScope ==
    [][(last'.op = "server.delete_artifact"
          /\ ServerDeleteArtifact(Owner, {"read", "write"}, ArtifactId))
       => (last'.result = InsufficientDelete /\ art' = art)]_vars

\* C14: the REST handlers enforce the scopes of the key as the MCP tools do: a
\* key without "write" cannot create, update or restore, and a key without
\* "delete" cannot delete; a refused request leaves the row as it was.
C14_RestEnforcesScopes ==
    [][\A sc \in ScopeSets :
          /\ ("write" \notin sc /\ last'.op = "POST /artifacts") =>
                \A d \in ToolCreateDatas :
                   ApiCreateArtifact(Owner, sc, d) => (last'.result # 201 /\ art' = art)
          /\ ("write" \notin sc /\ last'.op = "PUT /artifacts/{id}") =>
                \A d \in ToolUpdateDatas :
                   ApiUpdateArtifact(Owner, sc, ArtifactId, d) => (last'.result # 200 /\ art' = art)
          /\ ("write" \notin sc /\ last'.op = "POST /artifacts/{id}/restore/{n}") =>
                \A v \in ToolVersions :
                   ApiRestoreArtifactVersion(Owner, sc, ArtifactId, v)
                      => (last'.result # 200 /\ art' = art)
          /\ ("delete" \notin sc /\ last'.op = "DELETE /artifacts/{id}") =>
                (ApiDeleteArtifact(Owner, sc, ArtifactId) => (last'.result # 204 /\ art' = art))]_vars

\* another user, who owns nothing
Stranger == "u2"

\* C15: update and delete called with a user id other than the owner's fail
\* (update returns None, delete returns False) and leave the artifact as it
\* was: title, content, metadata, version and history, as a get by the owner
\* shows them.
C15_NotOwnerFails ==
    [][/\ last'.op = "update" =>
             \A d \in ForeignDatas :
                Update(ArtifactId, Stranger, d) =>
                   /\ last'.result = "None"
                   /\ get(art', ArtifactId, Owner) = get(art, ArtifactId, Owner)
                   /\ get(art', ArtifactId, Owner) # None
       /\ last'.op = "delete" =>
             (Delete(ArtifactId, Stranger) =>
                   /\ last'.result = "False"
                   /\ get(art', ArtifactId, Owner) = get(art, ArtifactId, Owner)
                   /\ get(art', ArtifactId, Owner) # None)]_vars

\* a delete was refused and the artifact, at version 2 with its snapshot, is
\* still there and still refuses the stranger
C15_Witness ==
    /\ last = [op |-> "delete", result |-> "False"]
    /\ art # NoRow
    /\ art.user_id = Owner
    /\ art.version = 2
    /\ Len(art.version_history) = 1
    /\ ~delete(art, ArtifactId, Stranger).result
    /\ update(art, ArtifactId, Stranger, [title |-> NoText, content |-> <<"a">>, metadata |-> "m1"]).result = None

IsHeadingLine(line, marker) ==
    /\ StartsAt(line, marker, 1)
    /\ Len(line) > Len(marker)
    /\ IsSpace(line[Len(marker) + 1])
    /\ Strip(Drop(line, Len(marker))) # <<>>

HeadingText(line, marker) == Strip(Drop(line, Len(marker)))

\* the first line of lines that is a heading of the marker, or <<>>
RECURSIVE FirstHeadingLine(_, _)
FirstHeadingLine(lines, marker) ==
    IF Len(lines) = 0 THEN <<>>
    ELSE IF IsHeadingLine(lines[1], marker) THEN lines[1]
    ELSE FirstHeadingLine(Tail(lines), marker)

\* the title by lines: first H1 line, else first H2 line, else first non-empty line
TitleByLines(content) ==
    LET lines == SplitLines(Strip(content))
        h1    == FirstHeadingLine(lines, <<"#">>)
        h2    == FirstHeadingLine(lines, <<"#", "#">>)
    IN  IF h1 # <<>> THEN HeadingText(h1, <<"#">>)
        ELSE IF h2 # <<>> THEN HeadingText(h2, <<"#", "#">>)
        ELSE FirstNonEmptyLine(lines)

\* C18: extract_title returns "Untitled" for empty content; otherwise the text
\* of the first level-1 heading line anywhere in the content when there is
\* one, else that of the first level-2 heading line, else the first non-empty
\* line (so a level-1 heading wins over an earlier level-2 heading), and the
\* result is never longer than max_length.
C18_TitleByPriority ==
    (last.op = "return" /\ last.call.fn = "extract_title_from_content") =>
       /\ last.call.content = <<>> => last.result = Untitled
       /\ last.call.content # <<>> =>
             last.result = Prefix(TitleByLines(last.call.content), last.call.max_length)
       /\ Len(last.result) <= last.call.max_length

\* C19: find_and_replace fails exactly when old is empty or does not occur;
\* without a limit it replaces every occurrence and returns their number;
\* with a limit it replaces the leftmost non-overlapping occurrences only and
\* the count it returns is the number replaced, min(limit, occurrences).
C19_ReplaceCount ==
    (last.op = "return" /\ last.call.fn = "find_and_replace") =>
       LET c    == last.call
           occ  == IF c.old_string = <<>> THEN 0 ELSE StrCount(c.content, c.old_string)
           made == last.result.replacements_made
       IN  /\ last.result.ok = (occ > 0)
           /\ (last.result.ok /\ c.count = NoCount) =>
                 /\ made = occ
                 /\ StrCount(last.result.modified, c.new_string) >= occ
                 /\ Len(last.result.modified)
                       = Len(c.content) + occ * (Len(c.new_string) - Len(c.old_string))
           /\ (last.result.ok /\ c.count # NoCount) =>
                 /\ made = Min(c.count[1], occ)
                 /\ made \in 0..occ
                 /\ last.result.modified = StrReplace(c.content, c.old_string, c.new_string, made)
                 /\ Len(last.result.modified)
                       = Len(c.content) + made * (Len(c.new_string) - Len(c.old_string))

C21_EmptyUpdateIsNoOp ==
    [][/\ last'.op = "PUT /artifacts/{id}" =>
             \A sc \in ScopeSets :
                ApiUpdateArtifact(Owner, sc, ArtifactId, NoData) =>
                   /\ last'.result = 200
                   /\ art' = art
                   /\ update(art, ArtifactId, Owner, NoData) = [result |-> art, row |-> art]
       /\ last'.op = "update_artifact" =>
             \A sc \in ScopeSets :
                ("write" \in sc /\ UpdateArtifactTool(Owner, sc, ArtifactId, NoData)) =>
                   /\ last'.result = "ok"
                   /\ art' = art]_vars

\* C22: delete by the owner returns True and removes the row; get,
\* get_versions, get_version, update, restore_version and get_version_diff on
\* that id then return None and a second delete returns False, and this stays
\* so for as long as the table holds no row.
C22_HardDelete ==
    /\ [][(last'.op = "delete" /\ Delete(ArtifactId, Owner)) =>
             /\ last'.result = "True"
             /\ art' = NoRow
             /\ ~delete(art', ArtifactId, Owner).result]_vars
    /\ [](art = NoRow =>
             /\ get(art, ArtifactId, Owner) = None
             /\ get_versions(art, ArtifactId, Owner) = None
             /\ ~delete(art, ArtifactId, Owner).result
             /\ delete(art, ArtifactId, Owner).row = NoRow
             /\ \A d \in UpdateDatas : update(art, ArtifactId, Owner, d) = [result |-> None, row |-> NoRow]
             /\ \A a \in Versions :
                   /\ get_version(art, ArtifactId, Owner, a) = None
                   /\ restore_version(art, ArtifactId, Owner, a) = [result |-> None, row |-> NoRow]
                   /\ \A b \in {1, 2, MaxVersion} :
                         get_version_diff(art, ArtifactId, Owner, a, b) = None)

\* the owner has just deleted the artifact
C22_Witness ==
    /\ last = [op |-> "delete", result |-> "True"]
    /\ art = NoRow
    /\ get(art, ArtifactId, Owner) = None

\* C24: in every reachable state the stored artifact has a title of 1 to 200
\* characters and a content of 1 to 100,000 characters, also when create or
\* update derived the title from the content.
C24_FieldLengths ==
    art # NoRow => /\ Len(art.title) \in 1..MaxTitleLength
                   /\ Len(art.content) \in 1..MaxContentLength

\* C25: a write that changes the title or the content (update, string
\* replace, string insert, restore) records a snapshot with the version
\* number, title, content and metadata the row had before it, so that
\* get_version of the old current version returns the old title and content
\* right after; the snapshots already held move down one place unchanged, and
\* one goes only when the history is full; a write that changes neither
\* leaves the history as it is.
C25_SnapshotOfPriorState ==
    [][(art # NoRow /\ art' # NoRow) =>
          LET old == art.version_history
              new == art'.version_history
              was == get_version(art', ArtifactId, Owner, art.version)
          IN  IF art'.title # art.title \/ art'.content # art.content
              THEN /\ new # <<>>
                   /\ new[1].version = art.version
                   /\ new[1].title = art.title
                   /\ new[1].content = art.content
                   /\ new[1].metadata = art.metadata
                   /\ was # None
                   /\ was.title = art.title
                   /\ was.content = art.content
                   /\ \A i \in 1..Len(old) :
                         IF i < RetentionCap THEN new[i + 1] = old[i]
                         ELSE Len(new) = RetentionCap
              ELSE new = old]_vars

\* a restore has just put snapshot 1 back: the version it replaced, 26 with
\* content "abb", is the newest snapshot and can be read back
C25_Witness ==
    /\ last = [op |-> "restore_version", result |-> "ok"]
    /\ art # NoRow
    /\ art.version = 27
    /\ art.version_history[1].version = 26
    /\ art.version_history[1].content # art.content
    /\ get_version(art, ArtifactId, Owner, 26).content = art.version_history[1].content
    /\ get_version(art, ArtifactId, Owner, 6) = None

\* C28: whatever creates, updates (metadata-only and no-change ones too),
\* string edits and restores ran, the current version is 1 + the total edit
\* count, the history holds min(total edit count, 20) snapshots, and their
\* version numbers are the integers just below the current version, newest
\* first.
C28_VersionLedgerShape ==
    art # NoRow =>
       /\ art.version = 1 + art.version_count
       /\ get_versions(art, ArtifactId, Owner).current_version
             = 1 + get_versions(art, ArtifactId, Owner).version_count
       /\ Len(art.version_history) = Min(art.version_count, RetentionCap)
       /\ \A i \in 1..Len(art.version_history) :
             art.version_history[i].version = art.version - i

\* after a metadata-only update at version 26: 25 edits counted, 20 snapshots
\* held, versions 25 down to 6
C28_Witness ==
    /\ last = [op |-> "update", result |-> "ok"]
    /\ art # NoRow
    /\ art.version = 26
    /\ art.version_count = 25
    /\ Len(art.version_history) = RetentionCap
    /\ art.version_history[1].version = 25
    /\ art.version_history[RetentionCap].version = 6
    /\ art.metadata # art.version_history[1].metadata


\* C23: a key that a delete call has deactivated is never validated again,
\* whatever API-key calls (create, update, delete, cleanup) follow: a
\* validate call on its key answers is_valid false.
C23_RevokedStaysInvalid ==
    \A k \in KeyIds :
        (last.op = "validate" /\ last.api_key = GeneratedKey(k) /\ k \in revoked)
            => ~last.result.is_valid

\* the row a presented key was generated for
StoredScopes(api_key) ==
    LET found == {k \in KeyIds : api_keys[k] # NoKey /\ api_keys[k].key = api_key}
    IN  IF found = {} THEN {} ELSE api_keys[CHOOSE k \in found : TRUE].scopes

\* C30: the scopes in force after a token was verified (the context scopes
\* and the scopes of the access token) are among the scopes stored on the
\* key, so that a key with no stored scopes grants nothing; after a failed
\* verification the context holds no user id and no scopes.
C30_ScopesWithinStored ==
    /\ last.op = "verify_token" =>
          IF last.result # NoScopes
          THEN ctx.scopes \subseteq StoredScopes(last.api_key)
               /\ last.result \subseteq StoredScopes(last.api_key)
          ELSE ctx.user_id = NoUser /\ ctx.scopes = {}
    /\ last.op = "server_verify_token" =>
          IF last.result # NoScopes
          THEN last.result \subseteq StoredScopes(last.api_key)
          ELSE ctx.server_user_id = NoUser

\* C26: there is no partial commit.  In every state, those between the
\* steps of requests served at the same time included, the live title and
\* content and the snapshot of the state they replaced go together: a step
\* that changes the live title or content puts the snapshot of the replaced
\* state (its version, title, content, metadata) at the head of the history
\* and advances the version by one; any other step leaves history and
\* version alone; and the newest snapshot always carries the version just
\* below the live one and differs from the live row in title or content.
C26_NoPartialCommit ==
    /\ [](art # NoRow =>
            IF art.version_history = <<>>
            THEN art.version = 1
            ELSE /\ art.version_history[1].version = art.version - 1
                 /\ \/ art.version_history[1].title # art.title
                    \/ art.version_history[1].content # art.content)
    /\ [][(art # NoRow /\ art' # NoRow) =>
            IF art'.title # art.title \/ art'.content # art.content
            THEN /\ art'.version = art.version + 1
                 /\ art'.version_history # <<>>
                 /\ art'.version_history[1].version = art.version
                 /\ art'.version_history[1].title = art.title
                 /\ art'.version_history[1].content = art.content
                 /\ art'.version_history[1].metadata = art.metadata
                 /\ Tail(art'.version_history) = art.version_history
            ELSE /\ art'.version = art.version
                 /\ art'.version_history = art.version_history]_vars

\* a request has read the row and not yet written while another request,
\* which read the same version, has committed its change
C26_Witness ==
    \E r, q \in Requests :
        /\ r # q
        /\ reqs[r].pc = "write"
        /\ reqs[q].pc = "done" /\ reqs[q].result = "ok" /\ reqs[q].op = "update"
        /\ reqs[q].read_version = reqs[r].read_version
        /\ art.version = reqs[r].read_version + 1
        /\ art.version_history # <<>>
        /\ art.content = reqs[q].update_data.content

EditEffect(req) ==
    IF req.op = "str_insert_artifact" THEN req.call.text ELSE req.call.new_string

IsStringTool(req) == req.op \in {"str_insert_artifact", "str_replace_artifact"}

=========================================================================
